---------------------------- MODULE Spec2Model ----------------------------
(***************************************************************************)
(* X402 payment gate of the weather endpoint (src/app/api/weather/route.ts) *)
(* modelled as a state machine: the process-wide verified-payment cache,   *)
(* the verifyPayment calls suspended on the ledger receipt query, the      *)
(* ledger behind the RPC client, the wall clock, and the response of the   *)
(* request that completed last.                                            *)
(*                                                                         *)
(* A JavaScript object is a record holding exactly the fields the code     *)
(* sets, so a field the code leaves out is absent from the record's        *)
(* DOMAIN.  A string built by concatenation is the sequence of its parts.  *)
(***************************************************************************)
EXTENDS Naturals, Sequences, FiniteSets, Bags, TLC

VARIABLES
    verifiedPayments,  \* route.ts:32  Map txHash -> {timestamp, amount, from}
    pending,           \* bag of verifyPayment calls suspended at route.ts:96
    ledger,            \* the chain: txHash -> receipt, or NotFound
    now,               \* Date.now(), in milliseconds
    last,              \* the request completed last, with its HTTP response
    confirmed,         \* history: ids a receipt query answered success + asset
    validReturned,     \* history: ids for which isValid = true was returned
    issued,            \* history: the challenges issued, kept by SpecIssue
    agent,             \* the getWeather action of axiom-config.ts: its position,
                       \* its locals and the agent memory, run by SpecAgent
    chat               \* the chat route and the chat page, run by SpecChat and
                       \* SpecPage

vars == <<verifiedPayments, pending, ledger, now, last, confirmed, validReturned, issued,
          agent, chat>>

---------------------------------------------------------------------------
(* Bounds of the model *)

\* Date.now() takes the values 0..MaxTime
MaxTime == 1
\* at most this many verifyPayment calls are suspended on the ledger at once
MaxInFlight == 2
\* SpecIssue follows the process until it has issued this many challenges
MaxIssued == 3
\* SpecAgent follows the agent through this many invocations of getWeather
MaxRuns == 2
\* SpecMemory lets the agent call transferToken while its conversation
\* history holds fewer lines than this
MaxActions == 3
MaxSubmits == 2
MaxReads == 2

---------------------------------------------------------------------------
(* Configuration: src/lib/axiom-config.ts:35-43 *)

X402_CONFIG ==
    [ network       |-> "sei-testnet",
      chainId       |-> 1328,
      asset         |-> "USDC",
      assetAddress  |-> "0x4fCF1784B31630811181f670Aea7A7bEF803eaED",
      assetDecimals |-> 6,
      recipient     |-> "0x9dC2aA0038830c052253161B1EE49B9dD449bD66",
      rpcUrl        |-> "https://evm-rpc-testnet.sei-apis.com" ]

---------------------------------------------------------------------------
(* Values *)

\* JavaScript's undefined / null, where a string is expected
Undefined == "<undefined>"

\* transaction hashes a proof may name
TxIds == {"0xaa", "0xbb"}

\* payload.amount values a proof may claim ("1000" is the required amount)
Amounts == {"1000", "1"}

\* payload.from
Payer == "0xPayer"

\* the asset address as an RPC node may spell it (all lower case)
AssetAddressLower == "0x4fcf1784b31630811181f670aea7a7bef803eaed"

\* receipt.to: the asset contract in either spelling, another account, or
\* null (a contract-creation transaction has no destination)
Destinations ==
    { X402_CONFIG.assetAddress, AssetAddressLower, X402_CONFIG.recipient, Undefined }

\* String.prototype.toLowerCase, on the strings of the model
ToLowerCase(s) ==
    CASE s = "0x4fCF1784B31630811181f670Aea7A7bEF803eaED"
              -> "0x4fcf1784b31630811181f670aea7a7bef803eaed"
      [] s = "0x9dC2aA0038830c052253161B1EE49B9dD449bD66"
              -> "0x9dc2aa0038830c052253161b1ee49b9dd449bd66"
      [] OTHER -> s

\* a transaction receipt as the code reads it: status and to
Receipts ==
    { r \in [status : {"success", "reverted"}, to : Destinations] :
        r.status = "reverted" => r.to = X402_CONFIG.assetAddress }

\* no receipt on the chain for a hash
NotFound == [status |-> "none", to |-> Undefined]

\* what the awaited getTransactionReceipt call produces: a receipt, a falsy
\* value (the !receipt branch of route.ts:100), or a thrown error
RpcFaults == {"HTTP request failed", "The request took too long to respond"}

AnswerReceipt(r) == [kind |-> "receipt", receipt |-> r, message |-> ""]
AnswerNull == [kind |-> "null", receipt |-> NotFound, message |-> ""]
AnswerThrow(m) == [kind |-> "throw", receipt |-> NotFound, message |-> m]
NoAnswer == [kind |-> "none", receipt |-> NotFound, message |-> ""]

\* the answers the RPC client can give for hash t on the current chain
RpcAnswers(t) ==
    (IF ledger[t] = NotFound THEN {AnswerNull} ELSE {AnswerReceipt(ledger[t])})
        \cup {AnswerThrow(m) : m \in RpcFaults}

---------------------------------------------------------------------------
(* The X-Payment header: base64 of the JSON of a proof *)

NoPayload == [present |-> FALSE, txHash |-> Undefined, amount |-> Undefined, from |-> Undefined]

Payloads ==
    {NoPayload}
        \cup { [present |-> TRUE, txHash |-> t, amount |-> "1000", from |-> Payer] :
                 t \in {Undefined, ""} }
        \cup { [present |-> TRUE, txHash |-> t, amount |-> a, from |-> Payer] :
                 t \in TxIds, a \in Amounts }

\* version / scheme / network: the supported triple and one mismatch in each
ProtocolTriples ==
    { <<1, "exact", "sei-testnet">>, <<2, "exact", "sei-testnet">>,
      <<1, "upto", "sei-testnet">>, <<1, "exact", "other-network">> }

Header(kind, triple, payload) ==
    [ kind |-> kind, x402Version |-> triple[1], scheme |-> triple[2],
      network |-> triple[3], payload |-> payload ]

\* req.headers.get("x-payment") = null
AbsentHeader == Header("absent", <<0, "", "">>, NoPayload)
\* the header is sent with an empty value
EmptyHeader == Header("empty", <<0, "", "">>, NoPayload)
\* a value that is not base64 of JSON: JSON.parse throws
GarbageHeader == Header("garbage", <<0, "", "">>, NoPayload)

ProofHeaders == { Header("proof", p, pl) : p \in ProtocolTriples, pl \in Payloads }

Headers == {AbsentHeader, EmptyHeader, GarbageHeader} \cup ProofHeaders

\* JavaScript truthiness of the header value and of payload.txHash
TruthyHeader(h) == h.kind \notin {"absent", "empty"}
TruthyTxHash(t) == t \notin {Undefined, ""}

\* Math.random().toString(36).substring(7)
RandomSuffixes == {"k3x9f", "q7m2p"}

---------------------------------------------------------------------------
(* generatePaymentChallenge: route.ts:37-64 *)

RECURSIVE Pow10(_)
Pow10(n) == IF n = 0 THEN 1 ELSE 10 * Pow10(n - 1)

\* viem parseUnits for a decimal "<whole>.<fraction>": the value scaled by
\* 10^decimals, the fraction given as its digits (no rounding is needed
\* while the fraction has at most `decimals` digits)
RECURSIVE FractionUnits(_, _)
FractionUnits(fraction, decimals) ==
    IF fraction = <<>> THEN 0
    ELSE Head(fraction) * Pow10(decimals - 1) + FractionUnits(Tail(fraction), decimals - 1)

\* variant: the digits after the decimal point are dropped
parseUnitsWholeOnly(whole, fraction, decimals) ==
    whole * Pow10(decimals)

parseUnits(whole, fraction, decimals) ==
    whole * Pow10(decimals) + FractionUnits(fraction, decimals)

\* bigint.toString(): the decimal digits, most significant first
RECURSIVE toString(_)
toString(n) ==
    LET digit == <<"0", "1", "2", "3", "4", "5", "6", "7", "8", "9">>[(n % 10) + 1]
    IN  IF n < 10 THEN <<digit>> ELSE Append(toString(n \div 10), digit)

\* `sei-${Date.now()}-${random}`
Reference(nowv, rand) == <<"sei-", nowv, "-", rand>>

generatePaymentChallenge(nowv, rand) ==
    [ x402Version |-> 1,
      accepts |-> <<
        [ scheme            |-> "exact",
          network           |-> X402_CONFIG.network,
          maxAmountRequired |-> toString(parseUnits(0, <<0, 0, 1>>, X402_CONFIG.assetDecimals)),
          resource          |-> "/api/weather",
          description       |-> "Get current weather data",
          mimeType          |-> "application/json",
          payTo             |-> X402_CONFIG.recipient,
          maxTimeoutSeconds |-> 300,
          asset             |-> X402_CONFIG.assetAddress,
          extra             |-> [ name      |-> X402_CONFIG.asset,
                                  version   |-> "2",
                                  reference |-> Reference(nowv, rand) ] ] >> ]

---------------------------------------------------------------------------
(* verifyPayment: route.ts:69-130 *)

\* an error that leaves verifyPayment instead of a result
Raised(message) == [raised |-> TRUE, message |-> message]

\* variant: the catch block logs the error and throws it again
CaughtRethrows(message) == Raised(message)

\* the catch block, route.ts:123-129
Caught(message) ==
    [isValid |-> FALSE, reason |-> <<"Verification error: ", message>>]

\* the messages of the errors the try block can raise by itself
JsonSyntaxError == "Unexpected token in JSON"
PayloadTypeError == "Cannot read properties of undefined (reading 'txHash')"

Return(v) == [done |-> TRUE, value |-> v]
Await == [done |-> FALSE]

\* variant: the network of the proof is not compared
ProtocolMismatchIgnoresNetwork(paymentData) ==
    \/ paymentData.x402Version # 1
    \/ paymentData.scheme # "exact"

\* variant: a proof claiming another amount than the required one mismatches
ProtocolMismatchOrUnderpaid(paymentData) ==
    \/ paymentData.x402Version # 1
    \/ paymentData.scheme # "exact"
    \/ paymentData.network # X402_CONFIG.network
    \/ paymentData.payload.amount # "1000"

\* route.ts:80-84
ProtocolMismatch(paymentData) ==
    \/ paymentData.x402Version # 1
    \/ paymentData.scheme # "exact"
    \/ paymentData.network # X402_CONFIG.network

\* variant: the cache is never consulted
IsCachedNever(txHash, cache) == FALSE

\* variant: any cached payment counts, whatever its id
IsCachedAny(txHash, cache) == DOMAIN cache # {}

\* route.ts:91
IsCached(txHash, cache) == txHash \in DOMAIN cache

\* route.ts:70-96: the call up to its first suspension, against the cache
\* `cache`; either it returns, or it awaits the receipt of payload.txHash
verifyPaymentEnter(paymentHeader, cache) ==
    IF paymentHeader.kind # "proof" THEN Return(Caught(JsonSyntaxError))
    ELSE IF ProtocolMismatch(paymentHeader)
    THEN Return([isValid |-> FALSE, reason |-> <<"Invalid payment format or network">>])
    ELSE IF ~paymentHeader.payload.present THEN Return(Caught(PayloadTypeError))
    ELSE IF TruthyTxHash(paymentHeader.payload.txHash)
    THEN IF IsCached(paymentHeader.payload.txHash, cache)
         THEN Return([isValid |-> TRUE, cached |-> TRUE])
         ELSE Await
    ELSE Return([isValid |-> FALSE, reason |-> <<"No valid payment proof provided">>])

\* variant: only a missing receipt fails, its status is not read
ReceiptFailedMissingOnly(answer) == answer.kind = "null"

\* route.ts:100: !receipt || receipt.status !== "success"
ReceiptFailed(answer) ==
    answer.kind = "null" \/ answer.receipt.status # "success"

\* variant: the destination of the receipt is not compared
IsValidTransferAnyDestination(receipt) == TRUE

\* variant: the destination is compared with the payee, not the asset contract
IsValidTransferToPayee(receipt) ==
    /\ receipt.to # Undefined
    /\ ToLowerCase(receipt.to) = ToLowerCase(X402_CONFIG.recipient)

\* route.ts:105-106
IsValidTransfer(receipt) ==
    /\ receipt.to # Undefined
    /\ ToLowerCase(receipt.to) = ToLowerCase(X402_CONFIG.assetAddress)

\* variant: the entry is stored under the payer, not under the txHash
CacheSetKeyedByPayer(cache, paymentHeader, nowv) ==
    (paymentHeader.payload.from :>
        [ timestamp |-> nowv,
          amount    |-> paymentHeader.payload.amount,
          from      |-> paymentHeader.payload.from ]) @@ cache

\* variant: the cache keeps the latest verified payment only
CacheSetLatestOnly(cache, paymentHeader, nowv) ==
    paymentHeader.payload.txHash :>
        [ timestamp |-> nowv,
          amount    |-> paymentHeader.payload.amount,
          from      |-> paymentHeader.payload.from ]

\* route.ts:110-114
CacheSet(cache, paymentHeader, nowv) ==
    (paymentHeader.payload.txHash :>
        [ timestamp |-> nowv,
          amount    |-> paymentHeader.payload.amount,
          from      |-> paymentHeader.payload.from ]) @@ cache

\* route.ts:96-129: the continuation once the receipt query has settled with
\* `answer`; gives the result and the cache it leaves
verifyPaymentResume(paymentHeader, answer, cache, nowv) ==
    IF answer.kind = "throw"
    THEN [value |-> Caught(answer.message), cache |-> cache]
    ELSE IF ReceiptFailed(answer)
    THEN [ value |-> [isValid |-> FALSE, reason |-> <<"Transaction failed or not found">>],
           cache |-> cache ]
    ELSE IF IsValidTransfer(answer.receipt)
    THEN [ value |-> [isValid |-> TRUE, txHash |-> paymentHeader.payload.txHash],
           cache |-> CacheSet(cache, paymentHeader, nowv) ]
    ELSE [ value |-> [isValid |-> FALSE, reason |-> <<"Invalid transfer details">>],
           cache |-> cache ]

---------------------------------------------------------------------------
(* GET: route.ts:132-164 *)

\* variant: the header is verified without testing that it is there
HasPaymentAlways(paymentHeader) == TRUE

\* the advisory validity window of a challenge, in milliseconds
\* (route.ts:54 gives it in seconds)
WindowMillis == generatePaymentChallenge(0, "").accepts[1].maxTimeoutSeconds * 1000

\* variant: a proof counts only while a challenge issued by this process is
\* within its validity window
HasPaymentWithinWindow(paymentHeader) ==
    /\ TruthyHeader(paymentHeader)
    /\ \E c \in BagToSet(issued) : now <= c.reference[2] + WindowMillis

\* route.ts:136
HasPayment(paymentHeader) == TruthyHeader(paymentHeader)

\* variant: the first challenge already carries an error text
RespondNoPaymentWithError(nowv, rand) ==
    [ status |-> 402,
      body   |-> ("error" :> <<"Payment required">>) @@ generatePaymentChallenge(nowv, rand) ]

\* route.ts:138
RespondNoPayment(nowv, rand) ==
    [status |-> 402, body |-> generatePaymentChallenge(nowv, rand)]

\* route.ts:147-148: verification.reason || "Payment verification failed"
ErrorText(verification) ==
    IF "reason" \in DOMAIN verification /\ verification.reason # <<>>
    THEN verification.reason
    ELSE <<"Payment verification failed">>

\* the framework's answer when the handler itself rejects
InternalServerError == [status |-> 500, body |-> [error |-> "Internal Server Error"]]

\* route.ts:142-163: GET has no try/catch of its own, so an error leaving
\* verifyPayment leaves GET too
RespondVerified(verification, nowv, rand) ==
    IF "raised" \in DOMAIN verification THEN InternalServerError
    ELSE IF ~verification.isValid
    THEN [ status |-> 402,
           body   |-> ("error" :> ErrorText(verification))
                          @@ generatePaymentChallenge(nowv, rand) ]
    ELSE [ status |-> 200,
           body   |-> [ location    |-> "Sei Network",
                        temperature |-> "99F",
                        conditions  |-> "Sunny",
                        humidity    |-> "45%",
                        windSpeed   |-> "8 mph",
                        timestamp   |-> nowv,
                        payment     |-> verification ] ]

---------------------------------------------------------------------------
(* The getWeather action: src/lib/axiom-config.ts:350-452 *)

\* JSON.stringify leaves out the members whose value is undefined; of the
\* members of a proof, `optional` are those that are not literals or results
\* of toString()
DropUndefined(object, optional) ==
    [ k \in {m \in DOMAIN object : m \in optional => object[m] # Undefined}
        |-> object[k] ]

\* JSON.stringify of a proof: the text holds the defined members, numbers
\* as numbers and strings as strings
JSONStringify(proof) ==
    [json |-> [proof EXCEPT !.payload = DropUndefined(proof.payload, {"txHash", "from"})]]

\* Buffer.from(text).toString("base64") and, on the server,
\* Buffer.from(header, "base64").toString()
ToBase64(text) == [base64 |-> text]
FromBase64(header) == header.base64

\* a member of a parsed object, undefined when the text does not hold it
Member(object, key) == IF key \in DOMAIN object THEN object[key] ELSE Undefined

\* route.ts:72-77: JSON.parse of the decoded header, read as the handler
\* reads it
ParseHeader(header) ==
    LET paymentData == FromBase64(header).json
    IN  Header("proof",
               << Member(paymentData, "x402Version"), Member(paymentData, "scheme"),
                  Member(paymentData, "network") >>,
               IF "payload" \notin DOMAIN paymentData THEN NoPayload
               ELSE [ present |-> TRUE,
                      txHash  |-> Member(paymentData.payload, "txHash"),
                      amount  |-> Member(paymentData.payload, "amount"),
                      from    |-> Member(paymentData.payload, "from") ])

\* seiWallet.walletAdress, axiom-config.ts:393
WalletAddress == Payer

\* variant: the proof names the chain by its viem name
paymentProofOtherNetwork(txHash) ==
    [ x402Version |-> 1,
      scheme      |-> "exact",
      network     |-> "sei-atlantic-2",
      payload     |-> [ txHash |-> txHash,
                        amount |-> toString(parseUnits(0, <<0, 0, 1>>, X402_CONFIG.assetDecimals)),
                        from   |-> WalletAddress ] ]

\* axiom-config.ts:386-395
paymentProof(txHash) ==
    [ x402Version |-> 1,
      scheme      |-> "exact",
      network     |-> X402_CONFIG.network,
      payload     |-> [ txHash |-> txHash,
                        amount |-> toString(parseUnits(0, <<0, 0, 1>>, X402_CONFIG.assetDecimals)),
                        from   |-> WalletAddress ] ]

\* axiom-config.ts:397-399: the paymentHeader the retry carries
EncodedProof(txHash) == ToBase64(JSONStringify(paymentProof(txHash)))

\* axiom-config.ts:136-139
actionResponse(message) == [data |-> [content |-> message], content |-> message]

\* the messages of the errors the handler receives
FetchFault == "fetch failed"
PaymentFaults == {"insufficient funds for gas * price + value"}

\* `${status}`: the decimal text of the statuses of the model
StatusText(status) ==
    CASE status = 200 -> "200"
      [] status = 402 -> "402"
      [] status = 500 -> "500"
      [] OTHER -> "0"

\* the messages of the errors the handler throws
ErrExpected402(status) == <<"Expected 402 Payment Required, got ", StatusText(status)>>
ErrPaymentFailed(message) == <<"Payment failed: ", message>>
ErrWeatherApi(status) == <<"Weather API error: ", StatusText(status)>>

\* SeiMemory as create() makes it (axiom-config.ts:148-156), the fields the
\* action touches
NewMemory ==
    [transactions |-> <<>>, lastTransaction |-> Undefined, conversationHistory |-> <<>>]

\* variant: the hash becomes lastTransaction but is not put in the list
UpdateMemoryLastOnly(memory, txHash) ==
    [ memory EXCEPT
        !.lastTransaction = txHash,
        !.conversationHistory = Append(@, <<"Got weather data. Payment TX: ", txHash>>) ]

\* axiom-config.ts:416-421
UpdateMemory(memory, txHash) ==
    [ memory EXCEPT
        !.transactions = <<txHash>> \o @,
        !.lastTransaction = txHash,
        !.conversationHistory = Append(@, <<"Got weather data. Payment TX: ", txHash>>) ]

\* axiom-config.ts:423-439: the success message
SuccessMessage(weatherData, txHash) ==
    << "**Weather Data Retrieved**",
       "**Location:** ", Member(weatherData, "location"),
       "**Temperature:** ", Member(weatherData, "temperature"),
       "**Conditions:** ", Member(weatherData, "conditions"),
       "**Humidity:** ", Member(weatherData, "humidity"),
       "**Wind Speed:** ", Member(weatherData, "windSpeed"),
       "**Payment Successful!**",
       "**Transaction Hash:** ", txHash,
       "**Amount:** $", "0.001", " USDC",
       "**Status:** Confirmed on Sei Testnet" >>

\* axiom-config.ts:440-451: the catch block of the handler
HandlerCatch(memory, message) ==
    LET errorMsg == <<"Error: Failed to get weather data. ">> \o message
    IN  [ memory   |-> [ memory EXCEPT !.conversationHistory =
                             Append(@, <<"Failed to get weather: ">> \o errorMsg) ],
          response |-> actionResponse(
                           <<"**Weather Request Failed**">> \o errorMsg
                               \o <<"Please try again or check your wallet balance for USDC tokens needed for the payment.">>) ]

\* one thing the handler did or saw, in the order of the run
Event(step, detail) == [step |-> step, detail |-> detail]

NoResult == [content |-> <<>>]

\* no invocation is running
AgentIdle ==
    [ pc |-> "idle", runs |-> 0, memory |-> NewMemory, before |-> NewMemory,
      txHash |-> Undefined, sent |-> {}, proof |-> ToBase64(""),
      trace |-> <<>>, result |-> NoResult ]

\* the handler leaves through its catch block
Failed(a, message) ==
    LET caught == HandlerCatch(a.memory, message)
    IN  [ a EXCEPT !.pc = "idle", !.runs = @ + 1,
                   !.memory = caught.memory, !.result = caught.response ]

\* variant: any first response is taken for a challenge
UnexpectedNever(status) == FALSE

\* axiom-config.ts:363: weatherResponse.status !== 402
Unexpected(status) == status # 402

\* axiom-config.ts:363-380: the first response has arrived; on a challenge
\* makeX402Payment is called and sends the transfer
FirstResponse(a, response) ==
    LET seen == [a EXCEPT !.trace = Append(@, Event("first response", response.status))]
    IN  IF Unexpected(response.status)
        THEN Failed(seen, ErrExpected402(response.status))
        ELSE [ seen EXCEPT
                 !.pc = "pay",
                 !.trace = Append(@, Event("payment", X402_CONFIG.assetAddress)) ]

\* variant: every response counts as ok
OkAlways(status) == TRUE

\* Response.ok: the status is in 200..299
Ok(status) == status >= 200 /\ status <= 299

\* variant: after a rejected retry the handler waits and submits the proof
\* once more
RetryRejectedPolls(a, status) ==
    IF Len(a.trace) < 7
    THEN [a EXCEPT !.pc = "wait"]
    ELSE Failed(a, ErrWeatherApi(status))

\* axiom-config.ts:409-411
RetryRejected(a, status) == Failed(a, ErrWeatherApi(status))

\* axiom-config.ts:409-441: the response to the retry has arrived
RetryResponse(a, response) ==
    LET seen == [a EXCEPT !.trace = Append(@, Event("retry response", response.status))]
    IN  IF ~Ok(response.status)
        THEN RetryRejected(seen, response.status)
        ELSE [ seen EXCEPT
                 !.pc = "idle", !.runs = @ + 1,
                 !.memory = UpdateMemory(a.memory, a.txHash),
                 !.result = actionResponse(SuccessMessage(response.body, a.txHash)) ]

---------------------------------------------------------------------------
(* POST /api/chat: src/app/api/chat/route.ts *)

\* an element of a JSON array that is null
NullElement == [null |-> TRUE]

\* the elements of `messages` a body may hold: null, messages with a role
\* and a content, a user message without content
ChatMessages ==
    {NullElement, [role |-> "user"]}
        \cup [role : {"user", "assistant"}, content : {"", "hi", "weather"}]

\* the arrays of at most two elements
MessageLists ==
    {<<>>} \cup { <<m>> : m \in ChatMessages }
           \cup { <<m, n>> : m \in ChatMessages, n \in ChatMessages }

\* the request bodies: an object whose `messages` is an array, a string, or
\* missing; or a body that req.json() rejects
ChatBodies ==
    { [kind |-> "array", messages |-> list] : list \in MessageLists }
        \cup { [kind |-> k, messages |-> <<>>] : k \in {"string", "missing", "invalid"} }

\* route.ts:16: [...messages].reverse().find((m) => m.role === "user"),
\* looking at element i and then at those before it; reading .role of null
\* is a TypeError
RECURSIVE FindLastUser(_, _)
FindLastUser(messages, i) ==
    IF i = 0 THEN [raised |-> FALSE, found |-> FALSE, index |-> 0]
    ELSE IF messages[i] = NullElement THEN [raised |-> TRUE, found |-> FALSE, index |-> i]
    ELSE IF messages[i].role = "user" THEN [raised |-> FALSE, found |-> TRUE, index |-> i]
    ELSE FindLastUser(messages, i - 1)

\* route.ts:15-17: Array.isArray(messages) ? find(...)?.content ?? "" : ""
LastUserMessage(body) ==
    IF body.kind # "array" THEN [raised |-> FALSE, value |-> ""]
    ELSE LET hit == FindLastUser(body.messages, Len(body.messages))
         IN  IF hit.raised THEN [raised |-> TRUE, value |-> ""]
             ELSE IF ~hit.found THEN [raised |-> FALSE, value |-> ""]
             ELSE LET content == Member(body.messages[hit.index], "content")
                  IN  [ raised |-> FALSE,
                        value  |-> IF content = Undefined THEN "" ELSE content ]

\* JSON.parse, on the contents of the model
JSONParse(text) ==
    CASE text = "{\"content\":\"Sunny\"}" -> [kind |-> "object", value |-> [content |-> "Sunny"]]
      [] text = "{\"other\":\"x\"}"       -> [kind |-> "object", value |-> [other |-> "x"]]
      [] text = "null"                    -> [kind |-> "null", value |-> [null |-> TRUE]]
      [] OTHER                            -> [kind |-> "error", value |-> [null |-> TRUE]]

\* the items an agent run may return
TextItems ==
    { [name |-> "text", ref |-> "output", content |-> c] :
        c \in {"{\"content\":\"Sunny\"}", "{\"other\":\"x\"}", "null", "Sunny today", ""} }
ResultItems ==
    { [name |-> "getWeather", ref |-> "action_result", data |-> [content |-> "Weather Data Retrieved"]],
      [name |-> "getBalance", ref |-> "action_result", data |-> [content |-> "Balance Check Complete"]],
      [name |-> "getBalance", ref |-> "action_result", data |-> [other |-> "x"]],
      [name |-> "getWeather", ref |-> "action_call"] }

\* what seiAxiom.run resolves with: nothing, a string, an object, an array
AgentResponses ==
    { [shape |-> s, items |-> <<>>, fields |-> [none |-> ""]] : s \in {"null", "string"} }
        \cup { [shape |-> "object", items |-> <<>>, fields |-> f] :
                 f \in { [text |-> "Hello"], [content |-> "Hi there"], [other |-> "x"],
                         [text |-> "", content |-> "Hi there"] } }
        \cup { [shape |-> "array", items |-> <<>>, fields |-> [none |-> ""]] }
        \cup { [shape |-> "array", items |-> <<i>>, fields |-> [none |-> ""]] :
                 i \in TextItems \cup ResultItems \cup {NullElement} }
        \cup { [shape |-> "array", items |-> <<i, j>>, fields |-> [none |-> ""]] :
                 i \in ResultItems, j \in TextItems \cup ResultItems }

\* the run resolves with a response, or rejects
AgentOutcomes ==
    { [kind |-> "return", response |-> r] : r \in AgentResponses }
        \cup { [kind |-> "throw", response |-> [shape |-> "null", items |-> <<>>, fields |-> [none |-> ""]]] }

\* a member that is there and truthy
Truthy(object, key) == key \in DOMAIN object /\ object[key] # ""

\* the three tests of response.find, route.ts:56-58, 69-72, 77-80
Matches(item, test) ==
    CASE test = "text"    -> item.name = "text" /\ Truthy(item, "content")
      [] test = "weather" -> item.name = "getWeather" /\ "data" \in DOMAIN item
                                 /\ Truthy(item.data, "content")
      [] test = "result"  -> item.ref = "action_result" /\ "data" \in DOMAIN item
                                 /\ Truthy(item.data, "content")

\* Array.prototype.find from element i on; reading a member of null is a
\* TypeError
RECURSIVE Find(_, _, _)
Find(items, i, test) ==
    IF i > Len(items) THEN [raised |-> FALSE, found |-> FALSE, index |-> 0]
    ELSE IF items[i] = NullElement THEN [raised |-> TRUE, found |-> FALSE, index |-> i]
    ELSE IF Matches(items[i], test) THEN [raised |-> FALSE, found |-> TRUE, index |-> i]
    ELSE Find(items, i + 1, test)

\* route.ts:60-66: the content of a text output, or the content member of
\* the object it parses to
TextOf(content) ==
    LET parsed == JSONParse(content)
    IN  IF parsed.kind = "object" /\ Truthy(parsed.value, "content")
        THEN parsed.value.content
        ELSE content

\* route.ts:52-89: responseText, or the TypeError raised on the way
ResponseText(response) ==
    IF response.shape = "array"
    THEN LET text    == Find(response.items, 1, "text")
             weather == Find(response.items, 1, "weather")
             result  == Find(response.items, 1, "result")
         IN  IF text.raised THEN [raised |-> TRUE, text |-> ""]
             ELSE IF text.found
             THEN [raised |-> FALSE, text |-> TextOf(response.items[text.index].content)]
             ELSE IF weather.found
             THEN [raised |-> FALSE, text |-> response.items[weather.index].data.content]
             ELSE IF result.found
             THEN [raised |-> FALSE, text |-> response.items[result.index].data.content]
             ELSE [raised |-> FALSE, text |-> ""]
    ELSE IF response.shape = "object"
    THEN [ raised |-> FALSE,
           text   |-> IF Truthy(response.fields, "text") THEN response.fields.text
                      ELSE IF Truthy(response.fields, "content") THEN response.fields.content
                      ELSE "" ]
    ELSE [raised |-> FALSE, text |-> ""]

\* the events of the stream; a text is the sequence of its parts
StartEvent == [type |-> "start"]
TextEvent(text) == [type |-> "text", text |-> text]
FinishEvent == [type |-> "finish"]

\* route.ts:96-102
FallbackText(lastUserMessage) ==
    << "I understand you said: \"", lastUserMessage,
       "\". I'm a SEI blockchain assistant. I can help you with:" >>

\* route.ts:109
ErrorMessage(lastUserMessage) ==
    << "I encountered an error processing your request: \"", lastUserMessage,
       "\". Please try again or ask me something else about SEI blockchain." >>

\* route.ts:46-106: the try block after the run has settled: the events it
\* sends, and whether it throws before sending them
TryBlock(lastUserMessage, outcome) ==
    IF outcome.kind = "throw" THEN [raised |-> TRUE, sent |-> <<>>]
    ELSE LET shaped == ResponseText(outcome.response)
         IN  IF shaped.raised THEN [raised |-> TRUE, sent |-> <<>>]
             ELSE [ raised |-> FALSE,
                    sent   |-> << TextEvent(IF shaped.text # "" THEN <<shaped.text>>
                                            ELSE FallbackText(lastUserMessage)),
                                  FinishEvent >> ]

\* variant: the catch block reports the failure as an error event
CatchBlockErrorEvent(lastUserMessage) ==
    << [type |-> "error", errorText |-> ErrorMessage(lastUserMessage)] >>

\* route.ts:107-111: the events the catch block sends
CatchBlock(lastUserMessage) ==
    << TextEvent(ErrorMessage(lastUserMessage)), FinishEvent >>

\* no request has been posted
NoPost ==
    [ pc |-> "none", body |-> [kind |-> "missing", messages |-> <<>>], status |-> 0,
      created |-> 0, handed |-> Undefined, events |-> <<>>, closed |-> FALSE ]

\* route.ts:11-49: POST up to the point where it returns its response: the
\* 400, or the stream whose start() has sent "start" and awaits the run; a
\* TypeError leaves the handler and the framework answers 500
PostReceived(body) ==
    LET last_ == LastUserMessage(body)
    IN  IF body.kind = "invalid" \/ last_.raised
        THEN [NoPost EXCEPT !.pc = "done", !.body = body, !.status = 500]
        ELSE IF last_.value = ""
        THEN [NoPost EXCEPT !.pc = "done", !.body = body, !.status = 400]
        ELSE [ NoPost EXCEPT !.pc = "running", !.body = body, !.status = 200,
                             !.created = 1, !.handed = last_.value,
                             !.events = <<StartEvent>> ]

\* route.ts:46-114: the run has settled; the rest of start()
RunSettled(post, outcome) ==
    LET tried == TryBlock(post.handed, outcome)
    IN  [ post EXCEPT
            !.pc = "done",
            !.events = @ \o (IF tried.raised THEN CatchBlock(post.handed) ELSE tried.sent),
            !.closed = TRUE ]

---------------------------------------------------------------------------
(* The chat page: src/unnamed/part_000:438-645 *)

\* what the user may type
Typed == {"", " ", "hi", " hi "}

\* String.prototype.trim, on the inputs of the model
Trim(text) ==
    CASE text = " "    -> ""
      [] text = " hi " -> "hi"
      [] OTHER         -> text

\* useState<Error | null>(null)
NoError == "<null>"

\* the errorText members an "error" event may carry
ErrorTexts == {Undefined, "", "Too many requests, slow down", "rate limit hit", "model crashed"}

\* String.prototype.includes, on the texts of the model
Includes(text, part) ==
    \/ part = "Too many requests" /\ text = "Too many requests, slow down"
    \/ part = "rate limit" /\ text = "rate limit hit"

\* part_000:525-536: the message shown for an "error" event
ErrorEventMessage(errorText) ==
    IF errorText = Undefined THEN "An error occurred while processing your request."
    ELSE IF Includes(errorText, "Too many requests")
    THEN "You're sending messages too quickly. Please wait a moment before trying again."
    ELSE IF Includes(errorText, "rate limit")
    THEN "Rate limit exceeded. Please wait a few seconds before sending another message."
    ELSE IF errorText # "" THEN errorText
    ELSE "An error occurred while processing your request."

\* the "data: " lines a chunk of the response may hold: events of every
\* handled type, of an unknown type, the [DONE] mark, and text that
\* JSON.parse rejects; a delta or text of "" is falsy
StreamLines ==
    { [type |-> "error", errorText |-> t] : t \in ErrorTexts }
        \cup { [type |-> "text-delta", delta |-> d] : d \in {"", "Sun"} }
        \cup { [type |-> "text", text |-> t] : t \in {"", "Sunny today"} }
        \cup { [type |-> t] : t \in {"start", "start-step", "text-start", "text-end",
                                     "finish-step", "finish", "ping", "[DONE]",
                                     "unparsable"} }

\* what fetch resolves with: response.ok, and whether response.body is there
Replies == [ok : BOOLEAN, body : BOOLEAN]

\* part_000:457-461, 491-495: a message; its content is the sequence of the
\* parts it was put together from, none for ""
Message(role, content) == [role |-> role, content |-> content]

\* part_000:540-552, 601-614, 627-637: the last message is removed when it
\* is an assistant message with empty content
PopEmpty(messages) ==
    IF /\ Len(messages) > 0
       /\ messages[Len(messages)].role = "assistant"
       /\ messages[Len(messages)].content = <<>>
    THEN SubSeq(messages, 1, Len(messages) - 1)
    ELSE messages

\* part_000:556-563: text-delta
AppendDelta(messages, delta) ==
    IF Len(messages) > 0 /\ messages[Len(messages)].role = "assistant"
    THEN [messages EXCEPT ![Len(messages)].content = Append(@, delta)]
    ELSE messages

\* part_000:565-572: text
SetText(messages, text) ==
    IF Len(messages) > 0 /\ messages[Len(messages)].role = "assistant"
    THEN [messages EXCEPT ![Len(messages)].content = <<text>>]
    ELSE messages

\* part_000:439-442: the state of the component after its first render; view
\* is what the last render captured in the closures of its handlers; calls
\* are the handleSubmit calls that have not returned
NewPage ==
    [ messages |-> <<>>, input |-> "", isLoading |-> FALSE, error |-> NoError,
      view |-> [messages |-> <<>>, input |-> "", isLoading |-> FALSE],
      calls |-> <<>>, submitted |-> 0,
      lastSubmit |-> [outcome |-> "none", blank |-> FALSE, loading |-> FALSE, busy |-> FALSE],
      lastExit |-> "none" ]

\* the render that follows a state update
Rendered(page) ==
    [page EXCEPT !.view = [messages |-> page.messages, input |-> page.input,
                           isLoading |-> page.isLoading]]

\* variant: only a blank input makes handleSubmit return early
IgnoredWhenBlank(input, isLoading) == Trim(input) = ""

\* part_000:455: if (!input.trim() || isLoading) return
Ignored(input, isLoading) == Trim(input) = "" \/ isLoading

\* a sequence without its element i
Without(seq, i) == SubSeq(seq, 1, i - 1) \o SubSeq(seq, i + 1, Len(seq))

\* part_000:453-481: handleSubmit up to its first await, with the input,
\* isLoading and messages of the render it was created in; the updates of a
\* form event are rendered before the next event is handled
handleSubmit(page) ==
    LET seen == [ outcome |-> "ignored", blank |-> Trim(page.view.input) = "",
                  loading |-> page.view.isLoading, busy |-> page.calls # <<>> ]
    IN  IF Ignored(page.view.input, page.view.isLoading)
        THEN [page EXCEPT !.lastSubmit = seen]
        ELSE LET userMessage == Message("user", <<Trim(page.view.input)>>)
             IN  Rendered([ page EXCEPT
                     !.messages = Append(@, userMessage),
                     !.input = "",
                     !.isLoading = TRUE,
                     !.error = NoError,
                     !.calls = Append(@, [ pc     |-> "fetch",
                                           reads  |-> 0,
                                           request |-> Append(page.view.messages, userMessage) ]),
                     !.submitted = @ + 1,
                     !.lastSubmit = [seen EXCEPT !.outcome = "accepted"] ])

\* variant: isLoading is left as it is when the call returns
ExitLeavesLoading(page, i, path) ==
    [page EXCEPT !.calls = Without(@, i), !.lastExit = path]

\* part_000:638-640: call i leaves handleSubmit through the finally block
Exit(page, i, path) ==
    [page EXCEPT !.isLoading = FALSE, !.calls = Without(@, i), !.lastExit = path]

\* part_000:622-640: an exception reaches the catch block of call i
Thrown(page, i, message) ==
    Exit([page EXCEPT !.error = message, !.messages = PopEmpty(@)], i, "thrown")

\* part_000:483-497: fetch has resolved for call i
Fetched(page, i, reply) ==
    IF ~reply.ok THEN Thrown(page, i, "HTTP error! status")
    ELSE IF ~reply.body THEN Thrown(page, i, "No response body")
    ELSE [ page EXCEPT !.messages = Append(@, Message("assistant", <<>>)),
                       !.calls[i].pc = "read" ]

\* part_000:511-616: call i handles one "data: " line of a chunk
Line(page, i, data) ==
    LET read == [page EXCEPT !.calls[i].reads = @ + 1]
    IN  CASE data.type = "[DONE]" -> read
          [] data.type = "unparsable" ->
                 [read EXCEPT !.error = "Unexpected token", !.messages = PopEmpty(@)]
          [] data.type = "error" ->
                 Exit([ read EXCEPT !.error = ErrorEventMessage(data.errorText),
                                    !.messages = PopEmpty(@) ], i, "error event")
          [] data.type = "text-delta" /\ data.delta # "" ->
                 [read EXCEPT !.messages = AppendDelta(@, data.delta)]
          [] data.type = "text" /\ data.text # "" ->
                 [read EXCEPT !.messages = SetText(@, data.text)]
          [] OTHER -> read

\* no request has been posted to the chat route, and the page has just been
\* mounted
ChatIdle == [post |-> NoPost, page |-> NewPage]

---------------------------------------------------------------------------
(* The state machine *)

\* verifyPayment returned a result that says the payment is valid
ReturnedValid(verification) ==
    "isValid" \in DOMAIN verification /\ verification.isValid

\* no request has completed yet
NoVerification == [called |-> FALSE]
NoResponse ==
    [ request |-> AbsentHeader, response |-> [status |-> 0], verification |-> NoVerification,
      answer |-> NoAnswer, queries |-> 0, afterValid |-> FALSE, cacheBefore |-> <<>> ]

\* the receipt the claims call a confirmation: success, sent to the asset
\* address in any spelling
Confirms(answer) ==
    /\ answer.kind = "receipt"
    /\ answer.receipt.status = "success"
    /\ answer.receipt.to \in {X402_CONFIG.assetAddress, AssetAddressLower}

Init ==
    /\ verifiedPayments = <<>>
    /\ pending = EmptyBag
    /\ ledger = [t \in TxIds |-> NotFound]
    /\ now = 0
    /\ last = NoResponse
    /\ confirmed = {}
    /\ validReturned = {}
    /\ issued = EmptyBag
    /\ agent = AgentIdle
    /\ chat = ChatIdle

\* the response of the request completed last has been looked at: `last` is
\* an observation of the program, and the step that clears it changes
\* nothing of the program's own state, so taking it between any two steps
\* removes no behaviour of the program
Observed == last = NoResponse

Observe ==
    /\ ~Observed
    /\ last' = NoResponse
    /\ UNCHANGED <<verifiedPayments, pending, ledger, now, confirmed, validReturned>>

\* the clock advances
Tick ==
    /\ Observed
    /\ now < MaxTime
    /\ now' = now + 1
    /\ UNCHANGED <<verifiedPayments, pending, ledger, last, confirmed, validReturned>>

\* the chain includes transaction t with receipt r; a receipt never changes
Mine(t, r) ==
    /\ Observed
    /\ ledger[t] = NotFound
    /\ ledger' = [ledger EXCEPT ![t] = r]
    /\ UNCHANGED <<verifiedPayments, pending, now, last, confirmed, validReturned>>

\* GET without a usable X-Payment header: route.ts:134-139
GetNoPayment(paymentHeader, rand) ==
    /\ Observed
    /\ ~HasPayment(paymentHeader)
    /\ last' = [ request |-> paymentHeader, response |-> RespondNoPayment(now, rand),
                 verification |-> NoVerification, answer |-> NoAnswer, queries |-> 0,
                 afterValid |-> FALSE, cacheBefore |-> verifiedPayments ]
    /\ UNCHANGED <<verifiedPayments, pending, ledger, now, confirmed, validReturned>>

\* GET whose verifyPayment call returns without touching the ledger
GetVerifyLocal(paymentHeader, rand) ==
    /\ Observed
    /\ HasPayment(paymentHeader)
    /\ LET entered == verifyPaymentEnter(paymentHeader, verifiedPayments)
       IN  /\ entered.done
           /\ last' = [ request |-> paymentHeader,
                        response |-> RespondVerified(entered.value, now, rand),
                        verification |-> entered.value, answer |-> NoAnswer, queries |-> 0,
                        afterValid |-> paymentHeader.payload.txHash \in validReturned,
                        cacheBefore |-> verifiedPayments ]
           /\ validReturned' = IF ReturnedValid(entered.value)
                               THEN validReturned \cup {paymentHeader.payload.txHash}
                               ELSE validReturned
    /\ UNCHANGED <<verifiedPayments, pending, ledger, now, confirmed>>

\* GET whose verifyPayment call issues the receipt query and suspends on it
GetVerifyAwait(paymentHeader) ==
    /\ Observed
    /\ HasPayment(paymentHeader)
    /\ ~verifyPaymentEnter(paymentHeader, verifiedPayments).done
    /\ BagCardinality(pending) < MaxInFlight
    /\ pending' = pending (+) SetToBag({ [ header |-> paymentHeader,
                                            afterValid |-> paymentHeader.payload.txHash
                                                               \in validReturned ] })
    /\ UNCHANGED <<verifiedPayments, ledger, now, last, confirmed, validReturned>>

\* the receipt query of a suspended call settles and the call runs to its
\* end; GET answers
GetVerifyResume(call, answer, rand) ==
    /\ Observed
    /\ call \in BagToSet(pending)
    /\ answer \in RpcAnswers(call.header.payload.txHash)
    /\ LET resumed == verifyPaymentResume(call.header, answer, verifiedPayments, now)
       IN  /\ verifiedPayments' = resumed.cache
           /\ last' = [ request |-> call.header,
                        response |-> RespondVerified(resumed.value, now, rand),
                        verification |-> resumed.value, answer |-> answer, queries |-> 1,
                        afterValid |-> call.afterValid, cacheBefore |-> verifiedPayments ]
           /\ validReturned' = IF ReturnedValid(resumed.value)
                               THEN validReturned \cup {call.header.payload.txHash}
                               ELSE validReturned
    /\ confirmed' = IF Confirms(answer)
                    THEN confirmed \cup {call.header.payload.txHash}
                    ELSE confirmed
    /\ pending' = pending (-) SetToBag({call})
    /\ UNCHANGED <<ledger, now>>

\* the history of issued challenges is not kept, and the agent does not run
Unrecorded == UNCHANGED <<issued, agent, chat>>

Next ==
    \/ Observe /\ Unrecorded
    \/ Tick /\ Unrecorded
    \/ \E t \in TxIds, r \in Receipts : Mine(t, r) /\ Unrecorded
    \/ \E h \in Headers, rand \in RandomSuffixes : GetNoPayment(h, rand) /\ Unrecorded
    \/ \E h \in Headers, rand \in RandomSuffixes : GetVerifyLocal(h, rand) /\ Unrecorded
    \/ \E h \in Headers : GetVerifyAwait(h) /\ Unrecorded
    \/ \E call \in BagToSet(pending), rand \in RandomSuffixes :
          \E answer \in RpcAnswers(call.header.payload.txHash) :
              GetVerifyResume(call, answer, rand) /\ Unrecorded

Spec == Init /\ [][Next]_vars

---------------------------------------------------------------------------
(* The same handler, with the history of the challenges it issues.  The     *)
(* chain holds no receipt, and the requests are those that reach each       *)
(* place where GET issues a challenge: no header, a header rejected before  *)
(* the receipt query, a header rejected after it.                           *)

\* What the runtime schedules by itself: a computed response is delivered and
\* the clock advances. The promise of getTransactionReceipt is settled by the
\* RPC node, and nothing in verifyPayment settles or abandons it otherwise
\* (route.ts:96-98 awaits it with no timer, no race and no abort signal), so
\* the continuation of a suspended call is not among the steps that must
\* happen.
Scheduling ==
    /\ WF_vars(Observe /\ Unrecorded)
    /\ WF_vars(Tick /\ Unrecorded)

SpecDeadline == Init /\ [][Next]_vars /\ Scheduling

IssueHeaders ==
    {AbsentHeader, EmptyHeader, GarbageHeader}
        \cup { h \in ProofHeaders : ~TruthyTxHash(h.payload.txHash) }
        \cup { Header("proof", <<1, "exact", "sei-testnet">>,
                      [present |-> TRUE, txHash |-> "0xaa", amount |-> "1000", from |-> Payer]) }

\* the challenge of a 402 response joins the history, with its reference
\* and whether it carries an error field
Recorded ==
    /\ last'.response.status = 402 => BagCardinality(issued) < MaxIssued
    /\ issued' =
          IF last'.response.status = 402
          THEN issued (+) SetToBag({
                   [ reference |-> last'.response.body.accepts[1].extra.reference,
                     reissue   |-> "error" \in DOMAIN last'.response.body ] })
          ELSE issued
    /\ UNCHANGED <<agent, chat>>

NextIssue ==
    \/ Observe /\ Unrecorded
    \/ Tick /\ Unrecorded
    \/ \E h \in IssueHeaders, rand \in RandomSuffixes : GetNoPayment(h, rand) /\ Recorded
    \/ \E h \in IssueHeaders, rand \in RandomSuffixes : GetVerifyLocal(h, rand) /\ Recorded
    \/ \E h \in IssueHeaders : GetVerifyAwait(h) /\ Unrecorded
    \/ \E call \in BagToSet(pending), rand \in RandomSuffixes :
          \E answer \in RpcAnswers(call.header.payload.txHash) :
              GetVerifyResume(call, answer, rand) /\ Recorded

SpecIssue == Init /\ [][NextIssue]_vars

---------------------------------------------------------------------------
(* The same handler, with the history of its challenges, a chain that may   *)
(* confirm the payment, and a clock that may run past the validity window   *)
(* of the challenges issued so far.                                         *)

\* the requests: without proof, and with the proof of one payment
ChallengeHeaders ==
    { AbsentHeader,
      Header("proof", <<1, "exact", "sei-testnet">>,
             [present |-> TRUE, txHash |-> "0xaa", amount |-> "1000", from |-> Payer]) }

\* more time passes than the validity window the challenges announce
Expire ==
    /\ Observed
    /\ now <= MaxTime
    /\ now' = now + WindowMillis + 1
    /\ UNCHANGED <<verifiedPayments, pending, ledger, last, confirmed, validReturned>>

NextChallenge ==
    \/ Observe /\ Unrecorded
    \/ Tick /\ Unrecorded
    \/ Expire /\ Unrecorded
    \/ \E r \in Receipts : Mine("0xaa", r) /\ Unrecorded
    \/ \E h \in ChallengeHeaders, rand \in RandomSuffixes : GetNoPayment(h, rand) /\ Recorded
    \/ \E h \in ChallengeHeaders, rand \in RandomSuffixes : GetVerifyLocal(h, rand) /\ Recorded
    \/ \E h \in ChallengeHeaders : GetVerifyAwait(h) /\ Unrecorded
    \/ \E call \in BagToSet(pending), rand \in RandomSuffixes :
          \E answer \in RpcAnswers(call.header.payload.txHash) :
              GetVerifyResume(call, answer, rand) /\ Recorded

SpecChallenge == Init /\ [][NextChallenge]_vars

---------------------------------------------------------------------------
(* The agent and the endpoint together: one agent process runs getWeather  *)
(* against GET /api/weather; the chain includes the transfers it sends.    *)

\* setTimeout(resolve, 3000), axiom-config.ts:383
WaitMillis == 3000

\* the handler is between two of its own steps: the endpoint does nothing
ServerIdle ==
    UNCHANGED <<verifiedPayments, pending, ledger, now, last, confirmed, validReturned, issued,
                chat>>

\* axiom-config.ts:350-361: the handler starts and sends the request
\* without proof
Invoke ==
    /\ Observed
    /\ agent.pc = "idle"
    /\ agent.runs < MaxRuns
    /\ agent' = [ agent EXCEPT
                    !.pc = "first", !.before = agent.memory, !.txHash = Undefined,
                    !.proof = ToBase64(""),
                    !.trace = <<Event("request", AbsentHeader)>>, !.result = NoResult ]
    /\ ServerIdle

\* the endpoint answers the first request
FirstServed(rand) ==
    /\ agent.pc = "first"
    /\ GetNoPayment(AbsentHeader, rand)
    /\ agent' = FirstResponse(agent, last'.response)
    /\ UNCHANGED <<issued, chat>>

\* what the first fetch gives when the endpoint does not answer it: the
\* fetch rejects, or the framework answers 500
FirstFaults == {[kind |-> "rejects", status |-> 0], [kind |-> "status", status |-> 500]}

FirstFails(fault) ==
    /\ Observed
    /\ agent.pc = "first"
    /\ agent' = IF fault.kind = "rejects"
                THEN Failed(agent, <<FetchFault>>)
                ELSE FirstResponse(agent, [InternalServerError EXCEPT !.status = fault.status])
    /\ ServerIdle

\* what walletClient.sendTransaction gives: the hash of a new transaction,
\* or an error
PaymentOutcomes ==
    { [hash |-> t, message |-> ""] : t \in TxIds }
        \cup { [hash |-> Undefined, message |-> m] : m \in PaymentFaults }

\* axiom-config.ts:379-383 and makeX402Payment, 55-101: the transfer was
\* sent and its hash returned, or makeX402Payment threw
PaymentSettles(outcome) ==
    /\ Observed
    /\ agent.pc = "pay"
    /\ outcome.hash # Undefined =>
           outcome.hash \notin agent.sent /\ ledger[outcome.hash] = NotFound
    /\ agent' = IF outcome.hash = Undefined
                THEN Failed(agent, ErrPaymentFailed(outcome.message))
                ELSE [ agent EXCEPT
                         !.pc = "wait", !.txHash = outcome.hash,
                         !.sent = @ \cup {outcome.hash},
                         !.trace = Append(@, Event("hash", outcome.hash)) ]
    /\ ServerIdle

\* the receipts a transfer sent to the asset contract can get
TransferReceipts == { r \in Receipts : ToLowerCase(r.to) = AssetAddressLower }

\* axiom-config.ts:383-407: the wait is over; the proof is built and the
\* retry sent
WaitDone ==
    /\ Observed
    /\ agent.pc = "wait"
    /\ now' = now + WaitMillis
    /\ agent' = [ agent EXCEPT
                    !.pc = "retry", !.proof = EncodedProof(agent.txHash),
                    !.trace = Append(@, Event("retry", EncodedProof(agent.txHash))) ]
    /\ UNCHANGED <<verifiedPayments, pending, ledger, last, confirmed, validReturned, issued,
                   chat>>

\* the endpoint takes the retry: it answers at once, or its verifyPayment
\* call suspends on the receipt query
RetryArrives(rand) ==
    /\ agent.pc = "retry"
    /\ LET h == ParseHeader(agent.proof)
       IN  IF verifyPaymentEnter(h, verifiedPayments).done
           THEN /\ GetVerifyLocal(h, rand)
                /\ agent' = RetryResponse(agent, last'.response)
           ELSE /\ GetVerifyAwait(h)
                /\ agent' = [agent EXCEPT !.pc = "verifying"]
    /\ UNCHANGED <<issued, chat>>

\* the receipt query settles and the endpoint answers the retry
RetryAnswered(call, answer, rand) ==
    /\ agent.pc = "verifying"
    /\ GetVerifyResume(call, answer, rand)
    /\ agent' = RetryResponse(agent, last'.response)
    /\ UNCHANGED <<issued, chat>>

\* the retry does not reach the endpoint: the fetch rejects
RetryFails ==
    /\ Observed
    /\ agent.pc = "retry"
    /\ agent' = Failed(agent, <<FetchFault>>)
    /\ ServerIdle

NextAgent ==
    \/ Observe /\ Unrecorded
    \/ Invoke
    \/ \E rand \in RandomSuffixes : FirstServed(rand)
    \/ \E fault \in FirstFaults : FirstFails(fault)
    \/ \E outcome \in PaymentOutcomes : PaymentSettles(outcome)
    \/ \E t \in agent.sent, r \in TransferReceipts : Mine(t, r) /\ Unrecorded
    \/ WaitDone
    \/ \E rand \in RandomSuffixes : RetryArrives(rand)
    \/ RetryFails
    \/ \E call \in BagToSet(pending), rand \in RandomSuffixes :
          \E answer \in RpcAnswers(call.header.payload.txHash) :
              RetryAnswered(call, answer, rand)

SpecAgent == Init /\ [][NextAgent]_vars

---------------------------------------------------------------------------
(* The agent's actions on its memory, one after the other: getWeather as   *)
(* above and transferToken, src/lib/axiom-config.ts:242-297.               *)

\* the recipients the action is called with: none, and an address
Recipients == {"", "0xRecipient"}

\* String(amount) of the amount the action is called with
TransferAmount == "1"

\* variant: the new hash is put at the end of the list
TransferUpdateAppends(memory, transaction, addressTo) ==
    [ memory EXCEPT
        !.transactions = Append(@, transaction),
        !.lastTransaction = transaction,
        !.conversationHistory =
            Append(@, << "Transferred ", TransferAmount, " SEI to ", addressTo,
                         ". TX: ", transaction >>) ]

\* axiom-config.ts:269-274
TransferUpdate(memory, transaction, addressTo) ==
    [ memory EXCEPT
        !.transactions = <<transaction>> \o @,
        !.lastTransaction = transaction,
        !.conversationHistory =
            Append(@, << "Transferred ", TransferAmount, " SEI to ", addressTo,
                         ". TX: ", transaction >>) ]

\* axiom-config.ts:280-288: the success message
TransferMessage(transaction, addressTo) ==
    << "**Transfer Successful!**",
       "**Amount:** ", TransferAmount, " SEI",
       "**To:** ", addressTo,
       "**Transaction Hash:** ", transaction >>

\* axiom-config.ts:258-262
NoRecipientMessage ==
    <<"Error: No recipient address provided. Please provide a valid Sei wallet address.">>

\* axiom-config.ts:289-296: the catch block of the handler
TransferCatch(memory, message) ==
    LET errorMsg == <<"Error: Failed to transfer tokens. ", message>>
    IN  [ memory   |-> [ memory EXCEPT !.conversationHistory =
                             Append(@, <<"Transfer failed: ">> \o errorMsg) ],
          response |-> actionResponse(errorMsg) ]

\* axiom-config.ts:252-297: the handler of transferToken, where `outcome` is
\* what seiWallet.ERC20Transfer gives
transferToken(memory, addressTo, outcome) ==
    IF addressTo = ""
    THEN [memory |-> memory, response |-> actionResponse(NoRecipientMessage)]
    ELSE IF outcome.hash = Undefined
    THEN TransferCatch(memory, outcome.message)
    ELSE [ memory   |-> TransferUpdate(memory, outcome.hash, addressTo),
           response |-> actionResponse(TransferMessage(outcome.hash, addressTo)) ]

\* the agent calls transferToken; the action runs to its end
Transfer(addressTo, outcome) ==
    /\ Observed
    /\ agent.pc = "idle"
    /\ Len(agent.memory.conversationHistory) < MaxActions
    /\ outcome.hash # Undefined =>
           outcome.hash \notin agent.sent /\ ledger[outcome.hash] = NotFound
    /\ LET ended == transferToken(agent.memory, addressTo, outcome)
       IN  agent' = [ agent EXCEPT
                        !.before = agent.memory, !.memory = ended.memory,
                        !.result = ended.response,
                        !.txHash = outcome.hash,
                        !.sent = IF addressTo = "" \/ outcome.hash = Undefined
                                 THEN @ ELSE @ \cup {outcome.hash},
                        !.trace = <<Event("transfer", addressTo)>> ]
    /\ ServerIdle

NextMemory ==
    \/ NextAgent
    \/ \E addressTo \in Recipients, outcome \in PaymentOutcomes : Transfer(addressTo, outcome)

SpecMemory == Init /\ [][NextMemory]_vars

---------------------------------------------------------------------------
(* The chat route, one request at a time *)

ChatOnly ==
    UNCHANGED <<verifiedPayments, pending, ledger, now, last, confirmed, validReturned, issued,
                agent>>

\* a request arrives and POST returns its response
Post(body) ==
    /\ chat.post.pc # "running"
    /\ chat' = [chat EXCEPT !.post = PostReceived(body)]
    /\ ChatOnly

\* the agent run of the request settles and start() runs to its end
Settle(outcome) ==
    /\ chat.post.pc = "running"
    /\ chat' = [chat EXCEPT !.post = RunSettled(@, outcome)]
    /\ ChatOnly

NextChat ==
    \/ \E body \in ChatBodies : Post(body)
    \/ \E outcome \in AgentOutcomes : Settle(outcome)

SpecChat == Init /\ [][NextChat]_vars

---------------------------------------------------------------------------
(* The chat page, against any server *)

\* the user types; the input is disabled while the rendered isLoading is
\* true (part_000:792)
Type(text) ==
    /\ ~chat.page.view.isLoading
    /\ chat' = [chat EXCEPT !.page.input = text, !.page.view.input = text]
    /\ ChatOnly

\* the updates made after an await are rendered
Render ==
    /\ chat.page # Rendered(chat.page)
    /\ chat' = [chat EXCEPT !.page = Rendered(@)]
    /\ ChatOnly

\* the form is submitted
Submit ==
    /\ Ignored(chat.page.view.input, chat.page.view.isLoading)
           \/ chat.page.submitted < MaxSubmits
    /\ chat' = [chat EXCEPT !.page = handleSubmit(@)]
    /\ ChatOnly

\* fetch rejects
FetchRejects(i) ==
    /\ chat.page.calls[i].pc = "fetch"
    /\ chat' = [chat EXCEPT !.page = Thrown(@, i, "Failed to fetch")]
    /\ ChatOnly

\* fetch resolves
FetchResolves(i, reply) ==
    /\ chat.page.calls[i].pc = "fetch"
    /\ chat' = [chat EXCEPT !.page = Fetched(@, i, reply)]
    /\ ChatOnly

\* reader.read() resolves with a chunk that holds one line
ReadLine(i, data) ==
    /\ chat.page.calls[i].pc = "read"
    /\ chat.page.calls[i].reads < MaxReads
    /\ chat' = [chat EXCEPT !.page = Line(@, i, data)]
    /\ ChatOnly

\* reader.read() resolves with done
ReadDone(i) ==
    /\ chat.page.calls[i].pc = "read"
    /\ chat' = [chat EXCEPT !.page = Exit(@, i, "stream end")]
    /\ ChatOnly

\* reader.read() rejects
ReadRejects(i) ==
    /\ chat.page.calls[i].pc = "read"
    /\ chat' = [chat EXCEPT !.page = Thrown(@, i, "network error")]
    /\ ChatOnly

NextPage ==
    \/ \E text \in Typed : Type(text)
    \/ Render
    \/ Submit
    \/ \E i \in 1..Len(chat.page.calls) :
           \/ FetchRejects(i)
           \/ \E reply \in Replies : FetchResolves(i, reply)
           \/ \E data \in StreamLines : ReadLine(i, data)
           \/ ReadDone(i)
           \/ ReadRejects(i)

SpecPage == Init /\ [][NextPage]_vars

---------------------------------------------------------------------------
(* Vocabulary of the properties *)

\* a request has just completed and `last` holds it
Completed == ~Observed

\* the request was answered by a verifyPayment call
Verified == Completed /\ "isValid" \in DOMAIN last.verification

\* the proof decodes and names the supported version, scheme and network
PassesProtocolCheck(h) ==
    /\ h.kind = "proof"
    /\ h.x402Version = 1
    /\ h.scheme = "exact"
    /\ h.network = "sei-testnet"

\* the specification spells the reasons in lower case, the code with a
\* capital initial: reasons are compared without regard to case
FoldCase(text) ==
    CASE text = "Invalid payment format or network" -> "invalid payment format or network"
      [] text = "Transaction failed or not found" -> "transaction failed or not found"
      [] text = "Invalid transfer details" -> "invalid transfer details"
      [] text = "No valid payment proof provided" -> "no valid payment proof provided"
      [] OTHER -> text

HasReason(verification, text) ==
    /\ "reason" \in DOMAIN verification
    /\ Len(verification.reason) = 1
    /\ FoldCase(verification.reason[1]) = text

Rejected(verification, text) ==
    /\ "isValid" \in DOMAIN verification
    /\ ~verification.isValid
    /\ HasReason(verification, text)

\* the body is a challenge issued for this very request, with no error field
FreshChallenge(body) ==
    \E rand \in RandomSuffixes : body = generatePaymentChallenge(now, rand)

\* the suspended calls that wait for the receipt of t
PendingOn(bag, t) ==
    { c \in BagToSet(bag) : c.header.payload.txHash = t }

RECURSIVE CopiesOf(_, _)
CopiesOf(bag, calls) ==
    IF calls = {} THEN 0
    ELSE LET c == CHOOSE x \in calls : TRUE
         IN  CopiesIn(c, bag) + CopiesOf(bag, calls \ {c})

QueriesInFlight(bag, t) == CopiesOf(bag, PendingOn(bag, t))

---------------------------------------------------------------------------
(* Properties *)

\* C1: a 200 response is returned only for a request whose proof passes the
\* version/scheme/network check and whose txHash a receipt query, of this
\* request or of an earlier one, answered with a receipt of status success
\* sent to the asset address (in any letter case).
C1_PaidOnly ==
    (Completed /\ last.response.status = 200) =>
        /\ PassesProtocolCheck(last.request)
        /\ last.request.payload.txHash \in confirmed

\* C1 witness: a 200 served on the strength of an earlier request's receipt
C1_Witness ==
    /\ Completed
    /\ last.response.status = 200
    /\ last.queries = 0

\* C2: a request without an X-Payment header gets 402 with a challenge
\* issued for this request, never 200, whatever the cache holds.
C2_FailClosed ==
    (Completed /\ ~TruthyHeader(last.request)) =>
        /\ last.response.status = 402
        /\ FreshChallenge(last.response.body)
        /\ last.queries = 0

\* C2 witness: such a request answered while the cache holds a payment
C2_Witness ==
    /\ Completed
    /\ last.request = AbsentHeader
    /\ last.response.status = 402
    /\ DOMAIN verifiedPayments # {}

\* C3: once verifyPayment has returned isValid = true for a transaction id,
\* every call that starts later with the same id and a matching protocol
\* returns isValid = true, cached = true, and issues no receipt query.
C3_IdempotentVerification ==
    /\ \A c \in BagToSet(pending) : ~c.afterValid
    /\ (Completed /\ last.afterValid /\ PassesProtocolCheck(last.request)) =>
          /\ Verified
          /\ last.verification.isValid
          /\ "cached" \in DOMAIN last.verification
          /\ last.verification.cached
          /\ last.queries = 0
          /\ last.answer = NoAnswer

\* C3 witness: a later call with an id already judged valid
C3_Witness ==
    /\ Completed
    /\ last.afterValid
    /\ PassesProtocolCheck(last.request)

\* C4: two overlapping verifyPayment calls for one transaction id do not
\* both issue a receipt query, and an entry once written is not overwritten.
C4_AtomicCheckThenInsert ==
    [][ /\ \A t \in TxIds : QueriesInFlight(pending', t) <= 1
        /\ \A t \in DOMAIN verifiedPayments :
              /\ t \in DOMAIN verifiedPayments'
              /\ verifiedPayments'[t] = verifiedPayments[t] ]_vars

C6_Case ==
    /\ Completed
    /\ PassesProtocolCheck(last.request)
    /\ last.queries = 1
    /\ \/ last.answer.kind = "null"
       \/ last.answer.kind = "receipt" /\ last.answer.receipt.status # "success"

C7_Case ==
    /\ Completed
    /\ PassesProtocolCheck(last.request)
    /\ last.queries = 1
    /\ last.answer.kind = "receipt"
    /\ last.answer.receipt.status = "success"
    /\ last.answer.receipt.to \notin {X402_CONFIG.assetAddress, AssetAddressLower}

C8_HappyPath ==
    /\ ( /\ Completed
         /\ PassesProtocolCheck(last.request)
         /\ TruthyTxHash(last.request.payload.txHash)
         /\ \/ Confirms(last.answer)
            \/ last.request.payload.txHash \in DOMAIN last.cacheBefore /\ last.queries = 0 )
       => /\ last.response.status = 200
          /\ last.response.body.payment.isValid
    /\ ( /\ Completed
         /\ PassesProtocolCheck(last.request)
         /\ Confirms(last.answer)
         /\ last.request.payload.txHash \notin DOMAIN last.cacheBefore )
       => /\ "txHash" \in DOMAIN last.verification
          /\ last.verification.txHash = last.request.payload.txHash
          /\ DOMAIN verifiedPayments =
                 DOMAIN last.cacheBefore \cup {last.request.payload.txHash}
          /\ verifiedPayments[last.request.payload.txHash] =
                 [ timestamp |-> now,
                   amount    |-> last.request.payload.amount,
                   from      |-> last.request.payload.from ]

\* C8 witness: the first verification of a hash, claiming another amount,
\* whose receipt names the asset address in lower case
C8_Witness ==
    /\ Completed
    /\ Confirms(last.answer)
    /\ last.answer.receipt.to = AssetAddressLower
    /\ last.request.payload.txHash \notin DOMAIN last.cacheBefore
    /\ last.request.payload.amount = "1"
    /\ last.response.status = 200

\* C9: every result with isValid = true echoes the proof's transaction id,
\* the result served from the cache included.
C9_ValidEchoesTxHash ==
    (Verified /\ last.verification.isValid) =>
        /\ "txHash" \in DOMAIN last.verification
        /\ last.verification.txHash = last.request.payload.txHash

\* C10: a decoded, matching proof without a transaction id (txHash missing
\* or empty, or no payload object) is rejected with "no valid payment proof
\* provided" and issues no receipt query.
C10_NoProofPayload ==
    /\ \A c \in BagToSet(pending) : TruthyTxHash(c.header.payload.txHash)
    /\ ( /\ Completed
         /\ PassesProtocolCheck(last.request)
         /\ ~TruthyTxHash(last.request.payload.txHash) )
       => /\ Rejected(last.verification, "no valid payment proof provided")
          /\ last.queries = 0

\* C11: an X-Payment header that does not decode into a proof is rejected
\* with reason "malformed proof", without receipt query or cache change.
C11_MalformedProof ==
    (Completed /\ last.request.kind = "garbage") =>
        /\ Rejected(last.verification, "malformed proof")
        /\ last.queries = 0
        /\ verifiedPayments = last.cacheBefore

\* the five reasons of the specification's error taxonomy
ReasonTaxonomy ==
    { "malformed proof", "invalid payment format or network",
      "transaction failed or not found", "invalid transfer details",
      "no valid payment proof provided" }

\* C12: every result with isValid = false carries a reason, and the reason
\* is one of the five of the taxonomy.
C12_ReasonTaxonomy ==
    (Verified /\ ~last.verification.isValid) =>
        \E text \in ReasonTaxonomy : HasReason(last.verification, text)

\* C13: verifyPayment never raises: whatever the header and the outcome of
\* the receipt query, a failing query included, it returns a result with
\* isValid set, and GET answers 402 or 200.
C13_NeverRaises ==
    Completed =>
        /\ last.response.status \in {200, 402}
        /\ HasPayment(last.request) =>
              /\ "isValid" \in DOMAIN last.verification
              /\ last.verification.isValid \in BOOLEAN
              /\ "raised" \notin DOMAIN last.verification

\* C13 witness: the receipt query itself failed and GET answered 402
C13_Witness ==
    /\ Completed
    /\ last.answer.kind = "throw"
    /\ last.response.status = 402
    /\ ~last.verification.isValid

\* the error text GET would have sent had the receipt query of the completed
\* request failed with message m, everything else being equal
ErrorUnderFault(m) ==
    ErrorText(verifyPaymentResume(last.request, AnswerThrow(m), last.cacheBefore, now).value)

\* C14: when the receipt query itself errors, the client gets a 402
\* challenge whose error text does not depend on the fault: any two faults
\* give the same text.
C14_GenericFaultError ==
    (Completed /\ last.answer.kind = "throw") =>
        /\ last.response.status = 402
        /\ "error" \in DOMAIN last.response.body
        /\ \A m \in RpcFaults : last.response.body.error = ErrorUnderFault(m)

\* how many of the challenges issued so far carry reference ref
RECURSIVE CopiesAmong(_, _)
CopiesAmong(bag, entries) ==
    IF entries = {} THEN 0
    ELSE LET e == CHOOSE x \in entries : TRUE
         IN  CopiesIn(e, bag) + CopiesAmong(bag, entries \ {e})

IssuedWith(ref) ==
    CopiesAmong(issued, { e \in BagToSet(issued) : e.reference = ref })

\* the reference of the challenge in a 402 body
ReferenceOf(body) == body.accepts[1].extra.reference

\* C15: a request whose X-Payment header is present but fails verification
\* gets 402 with a challenge issued for it, whose reference no earlier
\* challenge had, and a non-empty error equal to the verifier's reason.
C15_ReissueOnFailure ==
    (Completed /\ HasPayment(last.request) /\ ~ReturnedValid(last.verification)) =>
        /\ last.response.status = 402
        /\ "error" \in DOMAIN last.response.body
        /\ last.response.body.error # <<>>
        /\ last.response.body.error = last.verification.reason
        /\ \E rand \in RandomSuffixes :
              ReferenceOf(last.response.body) = Reference(now, rand)
        /\ IssuedWith(ReferenceOf(last.response.body)) = 1

\* C16: the references of all the challenges issued are pairwise distinct,
\* those issued in one millisecond included.
C16_ReferencesDistinct ==
    \A e \in BagToSet(issued) : IssuedWith(e.reference) = 1

\* C17: every challenge, first issue or re-issue, has x402Version 1 and one
\* accepts entry with the configured scheme, network, payee, asset, resource,
\* amount "1000" and timeout 300, whatever the request and its predecessors.
C17_ChallengeFields ==
    (Completed /\ last.response.status = 402) =>
        /\ last.response.body.x402Version = 1
        /\ Len(last.response.body.accepts) = 1
        /\ LET option == last.response.body.accepts[1]
           IN  /\ option.scheme = "exact"
               /\ option.network = "sei-testnet"
               /\ option.payTo = "0x9dC2aA0038830c052253161B1EE49B9dD449bD66"
               /\ option.asset = "0x4fCF1784B31630811181f670Aea7A7bEF803eaED"
               /\ option.resource = "/api/weather"
               /\ option.maxAmountRequired = <<"1", "0", "0", "0">>
               /\ option.maxTimeoutSeconds = 300

\* C17 witness: a challenge re-issued after a payment was verified and cached
C17_Witness ==
    /\ Completed
    /\ last.response.status = 402
    /\ "error" \in DOMAIN last.response.body
    /\ DOMAIN verifiedPayments # {}

\* C18: a challenge carries an error field exactly when it is re-issued
\* after a failed verification; the challenge for a request without header
\* never does, also after earlier requests failed verification.
C18_ErrorOnlyOnReissue ==
    (Completed /\ last.response.status = 402) =>
        /\ "error" \in DOMAIN last.response.body
              <=> (HasPayment(last.request) /\ ~ReturnedValid(last.verification))
        /\ ~HasPayment(last.request) => "error" \notin DOMAIN last.response.body

\* C18 witness: a request without header answered after a re-issued challenge
C18_Witness ==
    /\ Completed
    /\ last.request = AbsentHeader
    /\ last.response.status = 402
    /\ "error" \notin DOMAIN last.response.body
    /\ \E e \in BagToSet(issued) : e.reissue

\* the cache without the entries of other transaction ids
Restrict(cache, keys) == [k \in (DOMAIN cache) \cap keys |-> cache[k]]

\* C19: verifying one transaction id is not affected by the verification of
\* another: a call's result and the cache entry of its id are those it gives
\* when the cache holds nothing about other ids, and it leaves the entries
\* of other ids as they were.
C19_IndependentIds ==
    ( /\ Verified
      /\ PassesProtocolCheck(last.request)
      /\ TruthyTxHash(last.request.payload.txHash) ) =>
        LET t      == last.request.payload.txHash
            alone  == Restrict(last.cacheBefore, {t})
            enter  == verifyPaymentEnter(last.request, alone)
            resume == verifyPaymentResume(last.request, last.answer, alone, now)
        IN  /\ last.queries = 0 =>
                  /\ enter.done
                  /\ last.verification = enter.value
                  /\ verifiedPayments = last.cacheBefore
            /\ last.queries = 1 =>
                  /\ last.verification = resume.value
                  /\ Restrict(verifiedPayments, {t}) = resume.cache
            /\ Restrict(verifiedPayments, TxIds \ {t})
                   = Restrict(last.cacheBefore, TxIds \ {t})

\* C19 witness: a call confirmed on the ledger while a call for another id
\* is suspended, the other id being cached already
C19_Witness ==
    /\ Completed
    /\ last.queries = 1
    /\ ReturnedValid(last.verification)
    /\ \E c \in BagToSet(pending) :
          c.header.payload.txHash # last.request.payload.txHash
    /\ DOMAIN last.cacheBefore # {}

\* C20: a verifyPayment call suspended on the receipt query of a transaction
\* id eventually returns: whenever a query for the id is in flight, a call for
\* that id later completes and its request is answered, whether or not the
\* RPC node ever answers the query.
C20_EventuallyReturns ==
    \A t \in TxIds :
        (QueriesInFlight(pending, t) > 0)
            ~> (Completed /\ last.queries = 1 /\ last.request.payload.txHash = t)

\* C21: a transaction id that was verified and released the resource is not
\* granted the resource again: a request that presents an id for which
\* isValid = true was returned before does not get a 200 response.
C21_NoSecondGrant ==
    (Completed /\ last.afterValid) => last.response.status # 200

\* C22: the cache only grows: a step never removes a key, a key appears
\* only in the step in which the receipt query of a call for that id was
\* answered success with the asset address as destination, and so every key
\* of the cache is an id confirmed in that way.
C22_CacheOnlyGrows ==
    [][ /\ DOMAIN verifiedPayments \subseteq DOMAIN verifiedPayments'
        /\ \A t \in (DOMAIN verifiedPayments') \ (DOMAIN verifiedPayments) :
              /\ last'.queries = 1
              /\ last'.request.payload.txHash = t
              /\ Confirms(last'.answer)
        /\ DOMAIN verifiedPayments' \subseteq confirmed' ]_vars

\* C22 witness: both ids are cached and a later request that names a cached
\* id has been rejected, the keys staying
C22_Witness ==
    /\ DOMAIN verifiedPayments = TxIds
    /\ Verified
    /\ ~last.verification.isValid
    /\ last.request.payload.txHash \in DOMAIN last.cacheBefore

\* C25: a request changes nothing but, possibly, the cache, and the cache
\* only by one new entry on a fresh confirmation: a step that changes the
\* cache completes a call whose receipt query answered success with the
\* asset address for an id not cached so far, adds the entry of that id and
\* leaves every stored entry, its timestamp included, as it was; and a step
\* of a request never changes the ledger.
C25_FrameEffect ==
    [][ /\ (last' # last \/ pending' # pending) => ledger' = ledger
        /\ verifiedPayments' # verifiedPayments =>
              /\ last'.queries = 1
              /\ Confirms(last'.answer)
              /\ last'.request.payload.txHash \notin DOMAIN verifiedPayments
              /\ DOMAIN verifiedPayments' =
                     DOMAIN verifiedPayments \cup {last'.request.payload.txHash}
              /\ \A u \in DOMAIN verifiedPayments :
                     verifiedPayments'[u] = verifiedPayments[u] ]_vars

\* what a verification result tells the caller: validity and reason
Outcome(verification) ==
    [ isValid |-> ReturnedValid(verification),
      reason  |-> IF "reason" \in DOMAIN verification
                  THEN verification.reason ELSE <<>> ]

\* the proofs that differ from h in payload.amount and payload.from only
Siblings(h) ==
    { g \in ProofHeaders :
        /\ <<g.x402Version, g.scheme, g.network>> = <<h.x402Version, h.scheme, h.network>>
        /\ g.payload.present = h.payload.present
        /\ g.payload.txHash = h.payload.txHash }

Expired(c) == now > c.reference[2] + WindowMillis

C27_Unprompted ==
    /\ Completed
    /\ Confirms(last.answer)
    /\ last.response.status = 200
    /\ issued = EmptyBag

\* the steps of one run of getWeather, in the order the claims give them
RunOrder ==
    <<"request", "first response", "payment", "hash", "retry", "retry response">>

\* a run of getWeather has ended and its result is there
RunEnded == agent.pc = "idle" /\ agent.runs > 0

\* the run got a response to its retry, with this status
RetryStatus == IF Len(agent.trace) = Len(RunOrder) THEN agent.trace[6].detail ELSE 0

\* how many of the steps of the run are among `steps`
CountSteps(steps) == Cardinality({i \in DOMAIN agent.trace : agent.trace[i].step \in steps})

\* C23: in every run of getWeather the steps come in the order request
\* without proof, first response, payment, hash of the payment, retry; the
\* payment is sent only after a first response of status 402, and the retry
\* only after the payment returned a hash, which its proof carries.
C23_RunOrder ==
    /\ Len(agent.trace) <= Len(RunOrder)
    /\ \A i \in DOMAIN agent.trace : agent.trace[i].step = RunOrder[i]
    /\ Len(agent.trace) >= 1 => agent.trace[1].detail = AbsentHeader
    /\ Len(agent.trace) >= 3 => agent.trace[2].detail = 402
    /\ Len(agent.trace) >= 5 =>
          /\ TruthyTxHash(agent.trace[4].detail)
          /\ ParseHeader(agent.trace[5].detail).payload.txHash = agent.trace[4].detail

\* C23 witness: a run that went through all its steps
C23_Witness ==
    /\ RunEnded
    /\ Len(agent.trace) = Len(RunOrder)
    /\ agent.trace[6].detail = 200

\* the response reports weather data or a successful payment
ReportsSuccess(result) ==
    \E i \in DOMAIN result.content :
        result.content[i] \in {"**Weather Data Retrieved**", "**Payment Successful!**"}

\* C24: a run whose retry was not answered 200, or that failed before (no
\* 402, payment error, request not delivered), ends by returning the
\* failure message, reporting neither weather data nor a successful
\* payment; every run ends by returning a response, none by throwing.
C24_FailureSurfaced ==
    RunEnded =>
        /\ agent.result = actionResponse(agent.result.content)
        /\ agent.result.content # <<>>
        /\ RetryStatus # 200 =>
              /\ agent.result.content[1] = "**Weather Request Failed**"
              /\ agent.result.content[2] = "Error: Failed to get weather data. "
              /\ ~ReportsSuccess(agent.result)

\* C24 witness: the payment was sent and the retry answered 402
C24_Witness ==
    /\ RunEnded
    /\ RetryStatus = 402
    /\ agent.txHash \in agent.sent

\* C28: the proof of the retry passes the endpoint's check of version,
\* scheme and network and carries the non-empty hash the payment returned;
\* so the endpoint rejects the retry only after the receipt query.
C28_ProofWellFormed ==
    /\ Len(agent.trace) >= 5 =>
          LET h == ParseHeader(agent.trace[5].detail)
          IN  /\ ~ProtocolMismatch(h)
              /\ PassesProtocolCheck(h)
              /\ h.payload.present
              /\ TruthyTxHash(h.payload.txHash)
              /\ h.payload.txHash = agent.txHash
              /\ agent.txHash = agent.trace[4].detail
    /\ (Completed /\ RunEnded /\ RetryStatus # 0 /\ ~ReturnedValid(last.verification)) =>
          /\ last.queries = 1
          /\ \/ last.answer.kind = "throw"
             \/ ReceiptFailed(last.answer)
             \/ ~IsValidTransfer(last.answer.receipt)

\* C28 witness: the retry was rejected because the transfer reverted
C28_Witness ==
    /\ Completed
    /\ RunEnded
    /\ RetryStatus = 402
    /\ last.answer.kind = "receipt"
    /\ last.answer.receipt.status = "reverted"

\* C29: a run sends at most one payment and at most two requests, one without
\* and one with the proof, and it ends with the response to the retry; the
\* agent has sent no more payments than the runs it started.
C29_OnePaymentTwoRequests ==
    /\ CountSteps({"payment"}) <= 1
    /\ CountSteps({"request"}) <= 1
    /\ CountSteps({"retry"}) <= 1
    /\ CountSteps({"retry response"}) >= 1 => agent.pc = "idle"
    /\ Cardinality(agent.sent) <= agent.runs + (IF agent.pc = "idle" THEN 0 ELSE 1)

\* C29 witness: the retry was rejected only because the receipt was not there
\* yet after the wait, and the run has ended with one payment sent
C29_Witness ==
    /\ Completed
    /\ RunEnded
    /\ RetryStatus = 402
    /\ last.answer = AnswerNull
    /\ CountSteps({"payment"}) = 1
    /\ CountSteps({"request", "retry"}) = 2

\* C30: the run records its payment hash in memory exactly when the retry
\* was answered 2xx: then the hash heads transactions and is
\* lastTransaction; otherwise both are as before the run and the
\* conversation history got one failure line; during the run memory is
\* untouched.
C30_MemoryIffAccepted ==
    /\ agent.pc # "idle" => agent.memory = agent.before
    /\ RunEnded =>
          IF Ok(RetryStatus)
          THEN /\ agent.memory.transactions = <<agent.txHash>> \o agent.before.transactions
               /\ agent.memory.lastTransaction = agent.txHash
               /\ agent.memory.conversationHistory =
                      Append(agent.before.conversationHistory,
                             <<"Got weather data. Payment TX: ", agent.txHash>>)
          ELSE /\ agent.memory.transactions = agent.before.transactions
               /\ agent.memory.lastTransaction = agent.before.lastTransaction
               /\ Len(agent.memory.conversationHistory) =
                      Len(agent.before.conversationHistory) + 1
               /\ SubSeq(agent.memory.conversationHistory, 1,
                         Len(agent.before.conversationHistory))
                      = agent.before.conversationHistory
               /\ agent.memory.conversationHistory[Len(agent.memory.conversationHistory)][1]
                      = "Failed to get weather: "

\* C30 witness: memory holds an earlier payment, a new payment was sent and
\* its retry rejected
C30_Witness ==
    /\ RunEnded
    /\ RetryStatus = 402
    /\ agent.before.transactions # <<>>
    /\ agent.txHash \in agent.sent
    /\ agent.txHash # agent.before.lastTransaction

\* the head of transactions and lastTransaction agree
Consistent(memory) ==
    /\ memory.transactions = <<>> <=> memory.lastTransaction = Undefined
    /\ memory.transactions # <<>> => memory.lastTransaction = memory.transactions[1]

\* the action that ended last returned a failure
ActionFailed ==
    /\ agent.pc = "idle"
    /\ "data" \in DOMAIN agent.result
    /\ agent.result.content[1] \in
           { "**Weather Request Failed**", "Error: Failed to transfer tokens. ",
             NoRecipientMessage[1] }

\* C31: after any sequence of transferToken and getWeather actions,
\* lastTransaction is null exactly when transactions is empty and is the
\* head of transactions otherwise; an action that succeeds puts its hash in
\* front of the list as it was, and an action that fails leaves the list
\* and lastTransaction as they were.
C31_LastIsHead ==
    /\ Consistent(agent.memory)
    /\ (agent.pc = "idle" /\ "data" \in DOMAIN agent.result) =>
          IF ActionFailed
          THEN /\ agent.memory.transactions = agent.before.transactions
               /\ agent.memory.lastTransaction = agent.before.lastTransaction
          ELSE agent.memory.transactions = <<agent.txHash>> \o agent.before.transactions

\* C31 witness: a transfer fails after a payment for weather and a transfer
\* have been recorded
C31_Witness ==
    /\ ActionFailed
    /\ agent.trace[1].step = "transfer"
    /\ Len(agent.memory.transactions) = 2
    /\ agent.memory.transactions[1] # agent.memory.transactions[2]
    /\ \E i \in DOMAIN agent.memory.conversationHistory :
           agent.memory.conversationHistory[i][1] = "Got weather data. Payment TX: "

---------------------------------------------------------------------------
(* The chat route *)

\* the types of the events sent so far
EventTypes(post) == [i \in 1..Len(post.events) |-> post.events[i].type]

HasUserContent(body) ==
    /\ body.kind = "array"
    /\ \E i \in 1..Len(body.messages) :
           /\ body.messages[i] # NullElement
           /\ body.messages[i].role = "user"
           /\ Member(body.messages[i], "content") \notin {Undefined, ""}

\* the place of the last message with the role "user"
LastUserIndex(messages) ==
    CHOOSE i \in 1..Len(messages) :
        /\ messages[i] # NullElement /\ messages[i].role = "user"
        /\ \A j \in (i + 1)..Len(messages) :
               messages[j] = NullElement \/ messages[j].role # "user"

\* C33: a request whose `messages` is not an array, or holds no message
\* with the role "user" and a content that is not empty, is answered 400
\* and no agent is created or run; any other request hands the agent the
\* content of the last message with the role "user"
C33_Validation ==
    LET post == chat.post
    IN  post.pc # "none" /\ post.body.kind # "invalid" =>
            IF ~HasUserContent(post.body)
            THEN post.status = 400 /\ post.created = 0 /\ post.handed = Undefined
            ELSE /\ post.status = 200
                 /\ post.created = 1
                 /\ post.handed =
                        Member(post.body.messages[LastUserIndex(post.body.messages)], "content")

---------------------------------------------------------------------------
(* The chat page *)

\* C34: isLoading is true exactly while a handleSubmit call has not
\* returned; a submit is ignored exactly when the input is blank or
\* isLoading is true, and always when a call is in progress, so at most one
\* call and one request exist at a time; and whichever way a call has left
\* handleSubmit, isLoading is false
C34_LoadingIffInProgress ==
    LET page == chat.page
    IN  /\ page.isLoading <=> page.calls # <<>>
        /\ Len(page.calls) <= 1
        /\ page.lastSubmit.outcome = "ignored" <=>
               page.lastSubmit.blank \/ page.lastSubmit.loading
        /\ page.lastSubmit.busy => page.lastSubmit.outcome = "ignored"
        /\ page.lastExit # "none" /\ page.calls = <<>> => ~page.isLoading

\* a submit made while a call was in progress was ignored, and the call
\* then returned early on an "error" event
C34_Witness ==
    /\ chat.page.lastSubmit.outcome = "ignored"
    /\ chat.page.lastSubmit.loading
    /\ chat.page.lastSubmit.busy
    /\ chat.page.lastExit = "error event"
    /\ ~chat.page.isLoading
    /\ chat.page.submitted = 1

===========================================================================
